---- MODULE Spec2Model ----
(***************************************************************************)
(* Model of the Lingua Libre migration tools: the Node transformer         *)
(* clean-xml.js (rule loading, test harness, applyRules, the file loop)    *)
(* and the shell pipeline xml_updater.sh.                                   *)
(*                                                                         *)
(* Text is a sequence of tokens.  A token is a maximal piece of text the   *)
(* patterns of the model treat as a unit: a letter, a line break, the      *)
(* markers `<text`, `>` and `</text>`, or a namespace prefix.  A pattern   *)
(* is a literal token sequence; JavaScript's String.prototype.replace and  *)
(* String.prototype.match are modelled on such patterns, with the global   *)
(* flag, capture-group count and the `$&` replacement escape.              *)
(***************************************************************************)
EXTENDS Integers, Sequences, FiniteSets, TLC

\* ------------------------------------------------------------------ bounds

MaxRules == 2
MaxFiles == 2

\* ------------------------------------------------------------------ tokens

NL == "\n"
ESCNL == "\\n"
OPEN == "<text"
GT == ">"
CLOSE == "</text>"
WHOLEMATCH == "$&"

\* JavaScript `undefined` (an absent field, an unassigned variable)
Undefined == "undefined"

\* JavaScript truthiness of an optional string field
Truthy(v) == v # Undefined /\ v # ""

\* ---------------------------------------------------------- sequence helpers

Drop(s, n) == SubSeq(s, n + 1, Len(s))

\* Array.prototype.join('\n') over lines
RECURSIVE JoinLines(_)
JoinLines(ls) ==
    IF Len(ls) = 0 THEN <<>>
    ELSE IF Len(ls) = 1 THEN ls[1]
    ELSE ls[1] \o <<NL>> \o JoinLines(Tail(ls))

\* String.prototype.split('\n'): always at least one (possibly empty) line
RECURSIVE SplitLines(_)
SplitLines(s) ==
    IF \A p \in 1..Len(s) : s[p] # NL THEN <<s>>
    ELSE LET p == CHOOSE q \in 1..Len(s) :
                      s[q] = NL /\ \A q2 \in 1..(q - 1) : s[q2] # NL
         IN <<SubSeq(s, 1, p - 1)>> \o SplitLines(Drop(s, p))

\* --------------------------------------------------- regular expression model

\* the pattern matches at position i of s
MatchAt(s, i, pat) ==
    /\ i + Len(pat) - 1 <= Len(s)
    /\ \A k \in 1..Len(pat) : s[i + k - 1] = pat[k]

\* the replacement template with `$&` expanded to the matched text m
RECURSIVE ExpandTemplate(_, _)
ExpandTemplate(rep, m) ==
    IF rep = <<>> THEN <<>>
    ELSE (IF Head(rep) = WHOLEMATCH THEN m ELSE <<Head(rep)>>)
         \o ExpandTemplate(Tail(rep), m)

\* rule.replace.replace(/\\n/g, '\n'): the escaped-newline marker becomes a line break
RECURSIVE ExpandNewlines(_)
ExpandNewlines(rep) ==
    IF rep = <<>> THEN <<>>
    ELSE <<IF Head(rep) = ESCNL THEN NL ELSE Head(rep)>> \o ExpandNewlines(Tail(rep))

\* s.replace(regex, rep) from position i on; global replaces every
\* non-overlapping match left to right, otherwise only the first
RECURSIVE ReplaceFrom(_, _, _, _, _)
ReplaceFrom(s, i, pat, rep, global) ==
    IF i > Len(s) THEN <<>>
    ELSE IF MatchAt(s, i, pat)
         THEN ExpandTemplate(rep, pat)
              \o (IF global THEN ReplaceFrom(s, i + Len(pat), pat, rep, global)
                  ELSE Drop(s, i + Len(pat) - 1))
         ELSE <<s[i]>> \o ReplaceFrom(s, i + 1, pat, rep, global)

StringReplace(s, pat, rep, global) == ReplaceFrom(s, 1, pat, rep, global)

\* number of non-overlapping matches of pat in s from position i on
RECURSIVE CountMatchesFrom(_, _, _)
CountMatchesFrom(s, i, pat) ==
    IF i > Len(s) THEN 0
    ELSE IF MatchAt(s, i, pat) THEN 1 + CountMatchesFrom(s, i + Len(pat), pat)
         ELSE CountMatchesFrom(s, i + 1, pat)

CountMatches(s, pat) == CountMatchesFrom(s, 1, pat)

\* mutant: a regex without the g flag yields no match array
MatchArrayLengthGlobalOnly(s, pat, groups, global) ==
    IF global THEN CountMatches(s, pat) ELSE 0

\* (s.match(regex) || []).length: with the g flag the array of all matches,
\* without it the first match followed by its capture groups, or null
MatchArrayLength(s, pat, groups, global) ==
    IF global THEN CountMatches(s, pat)
    ELSE IF CountMatches(s, pat) > 0 THEN 1 + groups ELSE 0

\* ------------------------------------------- line-by-line inside <text> regions

\* position of the `>` that ends the opening tag started at i (`<text[^>]*>`);
\* the closing marker `</text>` ends in `>` too.  0 when there is none
TagEnd(s, i) ==
    IF \E j \in (i + 1)..Len(s) : s[j] \in {GT, CLOSE}
    THEN CHOOSE j \in (i + 1)..Len(s) :
             /\ s[j] \in {GT, CLOSE}
             /\ \A j2 \in (i + 1)..(j - 1) : s[j2] \notin {GT, CLOSE}
    ELSE 0

\* position of the first `</text>` after position j (`[\s\S]*?` is lazy); 0 when none
CloseAfter(s, j) ==
    IF \E k \in (j + 1)..Len(s) : s[k] = CLOSE
    THEN CHOOSE k \in (j + 1)..Len(s) :
             s[k] = CLOSE /\ \A k2 \in (j + 1)..(k - 1) : s[k2] # CLOSE
    ELSE 0

\* /(<text[^>]*>)([\s\S]*?)(<\/text>)/ matches at position i
RegionAt(s, i) ==
    /\ i <= Len(s)
    /\ s[i] = OPEN
    /\ TagEnd(s, i) # 0
    /\ CloseAfter(s, TagEnd(s, i)) # 0

\* lines.map(line => line.replace(regex, replacement))
RECURSIVE ProcessLines(_, _, _, _)
ProcessLines(ls, pat, rep, global) ==
    IF ls = <<>> THEN <<>>
    ELSE <<StringReplace(Head(ls), pat, rep, global)>>
         \o ProcessLines(Tail(ls), pat, rep, global)

\* mutant: every match on a line is counted
RECURSIVE LineMatches(_, _, _, _)
LineMatches(ls, pat, rep, global) ==
    IF ls = <<>> THEN 0
    ELSE CountMatches(Head(ls), pat) + LineMatches(Tail(ls), pat, rep, global)

\* lineChanges: the lines whose text differs after the replacement
RECURSIVE LineChanges(_, _, _, _)
LineChanges(ls, pat, rep, global) ==
    IF ls = <<>> THEN 0
    ELSE (IF StringReplace(Head(ls), pat, rep, global) # Head(ls) THEN 1 ELSE 0)
         + LineChanges(Tail(ls), pat, rep, global)

\* the region callback over the whole text, from position i on:
\* [text |-> rewritten text, count |-> lineChanges summed over the regions]
RECURSIVE ReplaceRegionsFrom(_, _, _, _, _)
ReplaceRegionsFrom(s, i, pat, rep, global) ==
    IF i > Len(s) THEN [text |-> <<>>, count |-> 0]
    ELSE IF RegionAt(s, i)
         THEN LET j == TagEnd(s, i)
                  k == CloseAfter(s, j)
                  ls == SplitLines(SubSeq(s, j + 1, k - 1))
                  rest == ReplaceRegionsFrom(s, k + 1, pat, rep, global)
              IN [text |-> SubSeq(s, i, j)
                             \o JoinLines(ProcessLines(ls, pat, rep, global))
                             \o <<CLOSE>> \o rest.text,
                  count |-> LineChanges(ls, pat, rep, global) + rest.count]
         ELSE LET rest == ReplaceRegionsFrom(s, i + 1, pat, rep, global)
              IN [text |-> <<s[i]>> \o rest.text, count |-> rest.count]

\* mutant: the lines of the whole text are processed, not those of the regions
ReplaceAllLines(s, pat, rep, global) ==
    [text |-> JoinLines(ProcessLines(SplitLines(s), pat, rep, global)),
     count |-> LineChanges(SplitLines(s), pat, rep, global)]

ReplaceRegions(s, pat, rep, global) == ReplaceRegionsFrom(s, 1, pat, rep, global)

\* --------------------------------------------------------------------- rules

\* const flags = rule.flags || 'g'
EffectiveFlags(rule) == IF Truthy(rule.flags) THEN rule.flags ELSE "g"

IsGlobal(flags) == flags \in {"g", "gm"}

\* mutant: a rule with a requires field is skipped whatever was activated
SkipAnyRequires(rule, features) == Truthy(rule.requires)

\* mutant: the requires field is ignored
SkipNever(rule, features) == FALSE

\* if (rule.requires && !activatedFeatures.has(rule.requires)) continue;
SkipRule(rule, features) == Truthy(rule.requires) /\ rule.requires \notin features

\* the body of applyRules' try block for one rule on the current text:
\* threw (new RegExp failed), the new text, the amount added to changesCount
\* and the count written to the verbose log (given the running total before)
RuleStep(rule, text, countBefore) ==
    IF ~rule.valid
    THEN [threw |-> TRUE, text |-> text, added |-> 0, logged |-> FALSE, logCount |-> 0]
    ELSE LET global == IsGlobal(EffectiveFlags(rule))
             replacement == ExpandNewlines(rule.replace)
         IN IF rule.process = "lineByLine"
            THEN LET res == ReplaceRegions(text, rule.match, replacement, global)
                 IN [threw |-> FALSE, text |-> res.text, added |-> res.count,
                     logged |-> res.text # text,
                     logCount |-> countBefore + res.count]
            ELSE LET after == StringReplace(text, rule.match, replacement, global)
                     ruleChanges == MatchArrayLength(text, rule.match, rule.groups, global)
                 IN [threw |-> FALSE, text |-> after,
                     added |-> IF after # text THEN ruleChanges ELSE 0,
                     logged |-> after # text,
                     logCount |-> ruleChanges]

\* applyTestRules from rule k on: no try/catch, so a rule that fails to compile
\* ends the process.  [threw, text, applied (indices past the feature gate)]
RECURSIVE ApplyTestRulesFrom(_, _, _, _)
ApplyTestRulesFrom(rs, k, text, features) ==
    IF k > Len(rs) THEN [threw |-> FALSE, text |-> text, applied |-> {}]
    ELSE IF SkipRule(rs[k], features)
         THEN ApplyTestRulesFrom(rs, k + 1, text, features)
         ELSE IF ~rs[k].valid
              THEN [threw |-> TRUE, text |-> text, applied |-> {k}]
              ELSE LET global == IsGlobal(EffectiveFlags(rs[k]))
                       replacement == ExpandNewlines(rs[k].replace)
                       next == IF rs[k].process = "lineByLine"
                               THEN ReplaceRegions(text, rs[k].match, replacement, global).text
                               ELSE StringReplace(text, rs[k].match, replacement, global)
                       rest == ApplyTestRulesFrom(rs, k + 1, next, features)
                   IN [rest EXCEPT !.applied = rest.applied \cup {k}]

ApplyTestRules(rs, text, features) == ApplyTestRulesFrom(rs, 1, text, features)

\* -------------------------------------------------------------------- inputs

Features == {"list"}

\* one record of json/replaces.json: match, replace, flags, requires, process;
\* groups is the number of capture groups of the pattern, valid whether
\* new RegExp(match, flags) succeeds
Rule(m, rep, fl, req, proc, g, ok) ==
    [match |-> m, replace |-> rep, flags |-> fl, requires |-> req,
     process |-> proc, groups |-> g, valid |-> ok]

RuleAB == Rule(<<"a">>, <<"b">>, Undefined, Undefined, Undefined, 0, TRUE)
RuleBA == Rule(<<"b">>, <<"a">>, "g", Undefined, Undefined, 0, TRUE)
RuleSame == Rule(<<"a">>, <<WHOLEMATCH>>, Undefined, Undefined, Undefined, 1, TRUE)
RuleFirst == Rule(<<"a">>, <<"b">>, "m", Undefined, Undefined, 1, TRUE)
RuleList == Rule(<<"a">>, <<"b">>, Undefined, "list", "lineByLine", 0, TRUE)
RuleLines == Rule(<<"a">>, <<"b", ESCNL>>, Undefined, Undefined, "lineByLine", 0, TRUE)
RuleLineSame == Rule(<<"b">>, <<WHOLEMATCH>>, Undefined, Undefined, "lineByLine", 0, TRUE)
RuleBad == Rule(<<"(">>, <<"b">>, Undefined, Undefined, Undefined, 0, FALSE)
RuleGated == Rule(<<"b">>, <<>>, Undefined, "list", Undefined, 0, TRUE)

RulePool ==
    {RuleAB, RuleBA, RuleSame, RuleFirst, RuleList, RuleLines, RuleLineSame,
     RuleBad, RuleGated}

SeqsUpTo(S, n) == UNION {[1..k -> S] : k \in 0..n}

RuleLists == SeqsUpTo(RulePool, MaxRules)

\* documents: plain text, text with <text> regions (attributes, several
\* lines, several regions), an unclosed region, an opening tag ended by the
\* `>` of a closing marker, a namespace prefix
DocPlain == <<"a", "b", "a">>
DocRegion == <<"a", OPEN, GT, "a", "a", NL, "b", CLOSE, "a">>
DocTwoRegions ==
    <<OPEN, "a", GT, "a", NL, "b", "a", CLOSE, "b", "a", OPEN, GT, "a", CLOSE>>
DocUnclosed == <<"b", OPEN, GT, "a", NL, "a">>
DocOddTag == <<"a", GT, OPEN, CLOSE, "a", CLOSE, "a">>
DocList == <<"[[c:", "Special:RecordWizard", NL, "List:", "a">>

DocPool == {DocPlain, DocRegion, DocTwoRegions, DocUnclosed, DocOddTag, DocList}

\* a file of ./xml: its text, and whether reading it succeeds
File(text, ok) == [content |-> text, readable |-> ok]

\* what json/replaces.json may hold: nothing (no file), text that is not
\* JSON, JSON without a rules array (`.rules` is undefined), a rule list
RunRuleLists ==
    {<<>>, <<RuleAB>>, <<RuleAB, RuleBA>>, <<RuleList, RuleSame>>,
     <<RuleBad, RuleAB>>, <<RuleLines, RuleGated>>}

RuleSources ==
    {[kind |-> "missing", rules |-> <<>>],
     [kind |-> "malformed", rules |-> <<>>],
     [kind |-> "norules", rules |-> <<>>]}
    \cup {[kind |-> "array", rules |-> rs] : rs \in RunRuleLists}

\* a document holding the namespace prefixes the header of xml_updater.sh lists
DocPrefixes ==
    <<"LinguaLibre:", "Template:", "Help:", "Category:", "List:",
      "Translations:", "a">>

RunFilePool ==
    {File(DocPlain, TRUE), File(DocRegion, TRUE), File(DocList, TRUE),
     File(DocPrefixes, TRUE), File(DocPlain, FALSE)}

\* what ./xml may be: absent, or a directory of n >= 0 XML files
DirStates ==
    {[exists |-> FALSE, files |-> <<>>]}
    \cup {[exists |-> TRUE, files |-> fs] : fs \in SeqsUpTo(RunFilePool, MaxFiles)}

\* the fixed table of the test harness: input and expected output
TestCases(features) ==
    << [input |-> <<"a", "b">>, expects |-> <<"b", "b">>],
       [input |-> <<OPEN, GT, "a", NL, "a", CLOSE>>,
        expects |-> IF "list" \in features
                    THEN <<OPEN, GT, "b", NL, "b", CLOSE>>
                    ELSE <<OPEN, GT, "a", NL, "a", CLOSE>>] >>

\* an entry of ./output: not written, or written with some text
NotWritten == [written |-> FALSE, content |-> <<>>]
Written(text) == [written |-> TRUE, content |-> text]

\* --------------------------------------------------------------------- state

VARIABLES
    prog,               \* "node" (clean-xml.js) or "sh" (xml_updater.sh)
    pc,                 \* position in the script
    dryRun, verbose, testMode, activatedFeatures,   \* parsed arguments
    rulesKind,          \* "unset", or what `rules` holds: "norules" (undefined), "array"
    rules,              \* the rule list when rulesKind = "array"
    xmlDir,             \* the files of ./xml as they are on disk
    outputDirExists,    \* ./output exists
    output,             \* ./output, one entry per file of ./xml
    i,                  \* index of the current file
    content,            \* applyRules: the text read from the file
    modified, changesCount, changes, r,   \* applyRules: locals, r the rule index
    applied,            \* indices of the rules that passed the feature gate
    filesRead,          \* indices of the files read so far
    ruleErrors,         \* "Invalid regex pattern" reports, as <<file, rule>>
    fileErrors,         \* "ERROR processing" reports, as <<file, failed step>>
    totalChanges,
    reported,           \* files reported as changed ("Would modify" / "Applied")
    t, passed, failed,  \* test harness: index of the test case, counters
    loadError,          \* "Failed to load" was reported
    summary,            \* the closing messages printed, as <<message, number>>
    exitCode            \* -1 while running

VARIABLES
    script,             \* the version of the userscript that runs, "none" for the scripts above
    wgAction, wgPageName,   \* mw.config of the page being viewed
    hasContent,         \* the page has a #mw-content-text element
    pageTitle,          \* init: wgPageName with spaces
    transformed, hasChanged, ruleIdx,   \* transformPageTitle: locals, ruleIdx the rule index
    tested,             \* the string handed to regex.test by the last rule handled
    newPageTitle,       \* init: the value transformPageTitle returned
    requested,          \* the titles asked of the Commons API, in order
    replies,            \* the replies received from the Commons API, in order
    exists,             \* init: the value pageExistsOnCommons resolved to
    errorLogged,        \* console.error of pageExistsOnCommons
    pageContent,        \* "original" or "redirect" (the redirect message)
    displayBlock,       \* style.display = 'block' was set on the content element
    editHidden,         \* the edit tab was hidden
    initResult,         \* the promise of init: "pending", "resolved", "rejected"
    apcontinue,         \* fetchPagesInNamespace: the page of results asked for, 0 the first
    sent,               \* the number of requests sent for each page of results
    collectedPages,     \* the pages of results added to collectedPages
    fetchErrors,        \* the number of "Error fetching pages" reports
    callDepth,          \* the number of nested calls of fetchPagesInNamespace
    jsonState,          \* fetch('./json/namespaces.json'): "pending", "loaded", "failed"
    namespacesLoaded,   \* the flag of part_002
    namespaces,         \* the namespace entries: quantity, pages, and what localStorage holds
    isRefreshing,       \* the flag of processNamespaces
    inv,                \* the invocations of processNamespaces: position ("idle", "waiting",
                        \* "running", "delay", or the return taken: "noload", "blocked",
                        \* "done"), attempts while polling, and the button captured
    nsIdx,              \* processNamespaces: the loop index of the run past the guard, from 1
    refreshBtn,         \* the element with id ll-refresh-btn in the document, 0 for none
    disabledBtns,       \* the refresh buttons created so far that are disabled
    loadErrors          \* the invocations that reported "namespaces.json failed to load"

pageVars ==
    <<wgAction, wgPageName, hasContent, pageTitle, transformed, hasChanged,
      ruleIdx, tested, newPageTitle, requested, replies, exists, errorLogged,
      pageContent, displayBlock, editHidden, initResult>>

fetchVars == <<apcontinue, sent, collectedPages, fetchErrors, callDepth>>

refreshVars ==
    <<jsonState, namespacesLoaded, namespaces, isRefreshing, inv, nsIdx,
      refreshBtn, disabledBtns, loadErrors>>

webVars == <<script, pageVars, fetchVars, refreshVars>>

vars ==
    <<prog, pc, dryRun, verbose, testMode, activatedFeatures, rulesKind, rules,
      xmlDir, outputDirExists, output, i, content, modified, changesCount,
      changes, r, applied, filesRead, ruleErrors, fileErrors, totalChanges,
      reported, t, passed, failed, loadError, summary,
      exitCode, webVars>>

\* the state of the command-line scripts, prog and pc apart
cliVars ==
    <<dryRun, verbose, testMode, activatedFeatures, rulesKind, rules, xmlDir,
      outputDirExists, output, i, content, modified, changesCount, changes, r,
      applied, filesRead, ruleErrors, fileErrors, totalChanges, reported, t,
      passed, failed, loadError, summary, exitCode>>

args == <<prog, dryRun, verbose, testMode, activatedFeatures>>
ruleVars == <<rulesKind, rules>>
diskVars == <<xmlDir, outputDirExists, output>>
docVars == <<content, modified, changesCount, changes, r, applied>>
testVars == <<t, passed, failed>>

Running == -1

\* `hasChanged ? transformed : null`: null, or a title
NullTitle == [isNull |-> TRUE, text |-> <<>>]
SomeTitle(s) == [isNull |-> FALSE, text |-> s]

\* whether regex.test was called by a rule of transformPageTitle, and on what
NotTested == [called |-> FALSE, text |-> <<>>]
Tested(s) == [called |-> TRUE, text |-> s]

\* the state of the page before init runs
PageLocals ==
    /\ pageTitle = <<>> /\ transformed = <<>> /\ hasChanged = FALSE
    /\ ruleIdx = 0 /\ tested = NotTested /\ newPageTitle = NullTitle
    /\ requested = <<>> /\ replies = <<>> /\ exists = "unset" /\ errorLogged = FALSE
    /\ pageContent = "original" /\ displayBlock = FALSE /\ editHidden = FALSE
    /\ initResult = "pending"

\* the most continuations a listing of the remote has
MaxContinue == 1

\* the most requests followed in one run
MaxRequests == 4

\* the state before fetchPagesInNamespace is called
FetchLocals ==
    /\ apcontinue = 0
    /\ sent = [c \in 0..MaxContinue |-> 0]
    /\ collectedPages = {}
    /\ fetchErrors = 0
    /\ callDepth = 0

\* the most clicks on a refresh button followed in one run
MaxClicks == 2

\* the most modals created in one run
MaxModals == 2

\* the most entries namespaces.json holds; userscript-pages.js is followed
\* on the first MaxNamespaces rows of its table
MaxNamespaces == 2

\* an invocation of processNamespaces that has not started
NotInvoked == [at |-> "idle", attempts |-> 0, btn |-> 0]

\* the state before the namespace manager is loaded
RefreshLocals ==
    /\ jsonState = "pending" /\ namespacesLoaded = FALSE /\ namespaces = <<>>
    /\ isRefreshing = FALSE
    /\ inv = [k \in 1..MaxClicks |-> NotInvoked]
    /\ nsIdx = 0 /\ refreshBtn = 0 /\ disabledBtns = {} /\ loadErrors = {}

\* no userscript runs
WebIdle ==
    /\ script = "none" /\ wgAction = "view" /\ wgPageName = <<>>
    /\ hasContent = FALSE
    /\ PageLocals
    /\ FetchLocals
    /\ RefreshLocals

InitLocals ==
    /\ rulesKind = "unset" /\ rules = <<>>
    /\ xmlDir = <<>> /\ outputDirExists = FALSE /\ output = <<>>
    /\ i = 0 /\ content = <<>> /\ modified = <<>> /\ changesCount = 0
    /\ changes = <<>> /\ r = 0 /\ applied = {} /\ filesRead = {}
    /\ ruleErrors = {} /\ fileErrors = {} /\ totalChanges = 0 /\ reported = {}
    /\ t = 0 /\ passed = 0 /\ failed = 0 /\ loadError = FALSE /\ summary = {}
    /\ exitCode = Running

\* the state after argument parsing
Init ==
    /\ prog \in {"node", "sh"}
    /\ dryRun \in BOOLEAN
    /\ verbose \in BOOLEAN
    /\ testMode \in (IF prog = "node" THEN BOOLEAN ELSE {FALSE})
    /\ activatedFeatures \in (IF prog = "node" THEN SUBSET Features ELSE {{}})
    /\ pc = IF prog = "node" THEN "load" ELSE "checkdir"
    /\ InitLocals
    /\ WebIdle

\* ------------------------------------------------------ clean-xml.js: loading

\* try { rules = JSON.parse(readFileSync(rulesPath)).rules } catch { exit(1) }
LoadRules ==
    /\ prog = "node" /\ pc = "load"
    /\ \E src \in RuleSources :
          IF src.kind \in {"missing", "malformed"}
          THEN /\ loadError' = TRUE
               /\ exitCode' = 1
               /\ pc' = "exit"
               /\ UNCHANGED <<ruleVars, t>>
          ELSE /\ rulesKind' = src.kind
               /\ rules' = src.rules
               /\ pc' = IF testMode THEN "test" ELSE "checkdir"
               /\ t' = IF testMode THEN 1 ELSE t
               /\ UNCHANGED <<loadError, exitCode>>
    /\ UNCHANGED <<args, webVars, diskVars, i, docVars, filesRead, ruleErrors, fileErrors,
                   totalChanges, reported, passed, failed, summary>>

\* ------------------------------------------------- clean-xml.js: test harness

\* one iteration of testCases.forEach: applyTestRules has no error handling,
\* so iterating undefined rules or compiling a bad pattern ends the process
RunTestCase ==
    /\ prog = "node" /\ pc = "test"
    /\ t <= Len(TestCases(activatedFeatures))
    /\ LET test == TestCases(activatedFeatures)[t]
           res == ApplyTestRules(rules, test.input, activatedFeatures)
       IN IF rulesKind # "array" \/ res.threw
          THEN /\ exitCode' = 1
               /\ pc' = "exit"
               /\ applied' = IF rulesKind = "array" THEN res.applied ELSE {}
               /\ UNCHANGED <<testVars, modified>>
          ELSE /\ modified' = res.text
               /\ applied' = res.applied
               /\ passed' = IF res.text = test.expects THEN passed + 1 ELSE passed
               /\ failed' = IF res.text = test.expects THEN failed ELSE failed + 1
               /\ t' = t + 1
               /\ UNCHANGED <<pc, exitCode>>
    /\ UNCHANGED <<args, webVars, ruleVars, diskVars, i, content, changesCount, changes, r,
                   filesRead, ruleErrors, fileErrors, totalChanges, reported,
                   loadError, summary>>

\* process.exit(failed > 0 ? 1 : 0)
ExitTests ==
    /\ prog = "node" /\ pc = "test"
    /\ t > Len(TestCases(activatedFeatures))
    /\ exitCode' = IF failed > 0 THEN 1 ELSE 0
    /\ pc' = "exit"
    /\ UNCHANGED <<args, webVars, ruleVars, diskVars, i, docVars, filesRead, ruleErrors,
                   fileErrors, totalChanges, reported, testVars, loadError, summary>>

\* ---------------------------------------------------- clean-xml.js: file loop

\* existsSync(xmlDir), readdirSync, the empty check, mkdirSync(outputDir)
ListFiles ==
    /\ prog = "node" /\ pc = "checkdir"
    /\ \E d \in DirStates :
          IF ~d.exists \/ Len(d.files) = 0
          THEN /\ exitCode' = 1
               /\ pc' = "exit"
               /\ UNCHANGED <<diskVars, i>>
          ELSE /\ xmlDir' = d.files
               /\ output' = [k \in 1..Len(d.files) |-> NotWritten]
               /\ outputDirExists' = IF ~dryRun THEN TRUE ELSE outputDirExists
               /\ i' = 1
               /\ pc' = "file"
               /\ UNCHANGED exitCode
    /\ UNCHANGED <<args, webVars, ruleVars, docVars, filesRead, ruleErrors, fileErrors,
                   totalChanges, reported, testVars, loadError, summary>>

\* readFileSync(file) and the entry of applyRules; a read error, or
\* `for (const rule of rules)` over undefined rules, lands in the file's catch
ReadFile ==
    /\ prog = "node" /\ pc = "file"
    /\ i <= Len(xmlDir)
    /\ IF ~xmlDir[i].readable
       THEN /\ fileErrors' = fileErrors \cup {<<i, "read">>}
            /\ i' = i + 1
            /\ UNCHANGED <<pc, docVars, filesRead>>
       ELSE /\ filesRead' = filesRead \cup {i}
            /\ content' = xmlDir[i].content
            /\ IF rulesKind # "array"
               THEN /\ fileErrors' = fileErrors \cup {<<i, "apply">>}
                    /\ i' = i + 1
                    /\ UNCHANGED <<pc, modified, changesCount, changes, r, applied>>
               ELSE /\ modified' = xmlDir[i].content
                    /\ changesCount' = 0
                    /\ changes' = <<>>
                    /\ r' = 1
                    /\ applied' = {}
                    /\ pc' = "rules"
                    /\ UNCHANGED <<fileErrors, i>>
    /\ UNCHANGED <<args, webVars, ruleVars, diskVars, ruleErrors, totalChanges, reported,
                   testVars, loadError, summary, exitCode>>

\* mutant: every rule is applied to the text as it was read
RuleInputOriginal == content

\* the text a rule is applied to: the text as rewritten so far
RuleInput == modified

\* mutant: no try/catch around a rule, the error reaches the catch of the file loop
ApplyRuleUncaught ==
    /\ prog = "node" /\ pc = "rules"
    /\ r <= Len(rules)
    /\ LET res == RuleStep(rules[r], RuleInput, changesCount)
       IN IF SkipRule(rules[r], activatedFeatures)
          THEN /\ r' = r + 1
               /\ UNCHANGED <<modified, changesCount, changes, applied, fileErrors, i, pc>>
          ELSE IF res.threw
               THEN /\ fileErrors' = fileErrors \cup {<<i, "apply">>}
                    /\ i' = i + 1
                    /\ pc' = "file"
                    /\ UNCHANGED <<modified, changesCount, changes, applied, r>>
               ELSE /\ applied' = applied \cup {r}
                    /\ modified' = res.text
                    /\ changesCount' = changesCount + res.added
                    /\ changes' = IF res.logged /\ verbose
                                  THEN Append(changes, [rule |-> r, count |-> res.logCount])
                                  ELSE changes
                    /\ r' = r + 1
                    /\ UNCHANGED <<fileErrors, i, pc>>
    /\ UNCHANGED <<args, webVars, ruleVars, diskVars, content, filesRead, ruleErrors,
                   totalChanges, reported, testVars, loadError, summary, exitCode>>

\* one iteration of `for (const rule of rules)` in applyRules
ApplyRule ==
    /\ prog = "node" /\ pc = "rules"
    /\ r <= Len(rules)
    /\ IF SkipRule(rules[r], activatedFeatures)
       THEN UNCHANGED <<modified, changesCount, changes, applied, ruleErrors>>
       ELSE LET res == RuleStep(rules[r], RuleInput, changesCount)
            IN /\ applied' = applied \cup {r}
               /\ modified' = res.text
               /\ changesCount' = changesCount + res.added
               /\ changes' = IF res.logged /\ verbose
                             THEN Append(changes, [rule |-> r, count |-> res.logCount])
                             ELSE changes
               /\ ruleErrors' = IF res.threw THEN ruleErrors \cup {<<i, r>>}
                                ELSE ruleErrors
    /\ r' = r + 1
    /\ UNCHANGED <<args, webVars, ruleVars, diskVars, i, content, filesRead, fileErrors,
                   totalChanges, reported, testVars, loadError, summary, exitCode, pc>>

\* what is written for a document whose changesCount is 0: copyFileSync(file, ...)
CopiedText == xmlDir[i].content

\* after applyRules returned: the count, and the write or the copy unless
\* dry-run; a write that fails lands in the file's catch
EmitFile ==
    /\ prog = "node" /\ pc = "rules"
    /\ r > Len(rules)
    /\ totalChanges' = IF changesCount > 0 THEN totalChanges + changesCount
                       ELSE totalChanges
    /\ reported' = IF changesCount > 0 THEN reported \cup {i} ELSE reported
    /\ \E writeOk \in (IF dryRun THEN {TRUE} ELSE BOOLEAN) :
          /\ output' = IF ~dryRun /\ writeOk
                       THEN [output EXCEPT ![i] =
                                Written(IF changesCount > 0 THEN modified ELSE CopiedText)]
                       ELSE output
          /\ fileErrors' = IF writeOk THEN fileErrors
                           ELSE fileErrors \cup {<<i, "write">>}
    /\ i' = i + 1
    /\ pc' = "file"
    /\ UNCHANGED <<args, webVars, ruleVars, xmlDir, outputDirExists, docVars, filesRead,
                   ruleErrors, testVars, loadError, summary, exitCode>>

\* the closing messages of clean-xml.js (runs without --quiet): the total and,
\* unless dry-run, the success line; nothing else is printed
SummaryLines ==
    IF dryRun
    THEN {<<"DRY RUN completed", 0>>, <<"total changes", totalChanges>>}
    ELSE {<<"completed successfully", 0>>, <<"total changes", totalChanges>>}

\* the end of the file loop and the closing messages
Summary ==
    /\ prog = "node" /\ pc = "file"
    /\ i > Len(xmlDir)
    /\ pc' = "done"
    /\ exitCode' = 0
    /\ summary' = SummaryLines
    /\ UNCHANGED <<args, webVars, ruleVars, diskVars, i, docVars, filesRead, ruleErrors,
                   fileErrors, totalChanges, reported, testVars, loadError>>

\* ------------------------------------------------------------- xml_updater.sh

SpaceTokens == {" ", NL}

\* one `s|pattern|replacement|g` of SED_COMMANDS: the texts the pattern
\* matches, the replacement, and whether the pattern ends in the captured
\* `\([^[:space:]]\)` that the replacement puts back (`\1`)
Sed(alts, rep, after) == [alts |-> alts, replace |-> rep, nonSpaceAfter |-> after]

SedCommands ==
    << Sed({<<"[[c:">>, <<"[[C:">>, <<"[[:c:">>, <<"[[:C:">>}, <<"[[">>, FALSE),
       Sed({<<"[[commons:">>, <<"[[Commons:">>, <<"[[:commons:">>, <<"[[:Commons:">>},
           <<"[[">>, FALSE),
       Sed({<<"[[", "Special:RecordWizard">>},
           <<"[[", ":lingualibre:", "Special:RecordWizard">>, FALSE),
       Sed({<<"<syntaxhighlight lang=\"sparql\">">>}, <<"{{SPARQL|query=">>, FALSE),
       Sed({<<"</syntaxhighlight>">>}, <<"}}">>, FALSE),
       Sed({<<"Category:Tool">>}, <<"Category:Lingua Libre tool">>, TRUE),
       Sed({<<"Category:Speakers in">>}, <<"Category:Voice contributors in">>, FALSE),
       Sed({<<"LinguaLibre:">>}, <<"Commons:Lingua Libre/">>, FALSE),
       Sed({<<"List:">>}, <<"Commons:Lingua Libre/Lists/">>, FALSE),
       Sed({<<"Help:">>}, <<"Help:Lingua Libre/">>, FALSE),
       Sed({<<"Translations:">>}, <<"Translations:">>, FALSE),
       Sed({<<"Template:">>}, <<"Template:">>, FALSE),
       Sed({<<"Welcome/">>}, <<"Welcome-LL/">>, FALSE) >>

\* the command matches at position p of s
SedMatchAt(s, p, cmd) ==
    /\ \E pat \in cmd.alts : MatchAt(s, p, pat)
    /\ cmd.nonSpaceAfter =>
          LET n == Len(CHOOSE pat \in cmd.alts : MatchAt(s, p, pat))
          IN p + n <= Len(s) /\ s[p + n] \notin SpaceTokens

\* one substitution command with the g flag, from position p on
RECURSIVE SedSubstFrom(_, _, _)
SedSubstFrom(s, p, cmd) ==
    IF p > Len(s) THEN <<>>
    ELSE IF SedMatchAt(s, p, cmd)
         THEN LET n == Len(CHOOSE pat \in cmd.alts : MatchAt(s, p, pat))
              IN IF cmd.nonSpaceAfter
                 THEN cmd.replace \o <<s[p + n]>> \o SedSubstFrom(s, p + n + 1, cmd)
                 ELSE cmd.replace \o SedSubstFrom(s, p + n, cmd)
         ELSE <<s[p]>> \o SedSubstFrom(s, p + 1, cmd)

\* sed -e cmd1 -e cmd2 ...: the commands in order, from command k on
RECURSIVE SedApplyFrom(_, _)
SedApplyFrom(s, k) ==
    IF k > Len(SedCommands) THEN s
    ELSE SedApplyFrom(SedSubstFrom(s, 1, SedCommands[k]), k + 1)

SedApply(s) == SedApplyFrom(s, 1)

\* the ./xml check and the file count
ShListFiles ==
    /\ prog = "sh" /\ pc = "checkdir"
    /\ \E d \in DirStates :
          IF ~d.exists \/ Len(d.files) = 0
          THEN /\ exitCode' = 1
               /\ pc' = "exit"
               /\ UNCHANGED <<xmlDir, i>>
          ELSE /\ xmlDir' = d.files
               /\ i' = 1
               /\ pc' = "file"
               /\ UNCHANGED exitCode
    /\ UNCHANGED <<args, webVars, ruleVars, outputDirExists, output, docVars, filesRead,
                   ruleErrors, fileErrors, totalChanges, reported, testVars,
                   loadError, summary>>

\* mutant: sed -i runs in dry-run mode too
ShTargetsAlways == {i}

\* the file the apply branch rewrites (sed -i): the current one
ShTargets == IF dryRun THEN {} ELSE {i}

\* one iteration of the while loop: sed | diff in dry-run, sed -i otherwise
ShProcessFile ==
    /\ prog = "sh" /\ pc = "file"
    /\ i <= Len(xmlDir)
    /\ IF ~xmlDir[i].readable
       THEN UNCHANGED <<xmlDir, reported>>
       ELSE /\ reported' = IF dryRun /\ SedApply(xmlDir[i].content) # xmlDir[i].content
                           THEN reported \cup {i} ELSE reported
            /\ xmlDir' = [k \in 1..Len(xmlDir) |->
                             IF k \in ShTargets
                             THEN [xmlDir[k] EXCEPT !.content = SedApply(xmlDir[k].content)]
                             ELSE xmlDir[k]]
    /\ i' = i + 1
    /\ UNCHANGED <<args, webVars, ruleVars, outputDirExists, output, docVars, filesRead,
                   ruleErrors, fileErrors, totalChanges, testVars, loadError, summary,
                   exitCode, pc>>

\* the closing message
ShSummary ==
    /\ prog = "sh" /\ pc = "file"
    /\ i > Len(xmlDir)
    /\ pc' = "done"
    /\ exitCode' = 0
    /\ summary' = IF dryRun THEN {<<"DRY RUN completed", 0>>}
                  ELSE {<<"completed successfully", 0>>}
    /\ UNCHANGED <<args, webVars, ruleVars, diskVars, i, docVars, filesRead, ruleErrors,
                   fileErrors, totalChanges, reported, testVars, loadError>>

\* ------------------------------------------- migratedToCommons.js (userscript)

\* the two versions of the userscript: the one with the redirectToCommons
\* rule, and the one with the "rename" table
Part000 == "part_000"
MigratedJs == "migratedToCommons.js"

UNDERSCORE == "_"
SPACE == " "

\* mw.config.get('wgPageName').replace(/_/g, ' ')
UnderscoresToSpaces(s) ==
    [p \in 1..Len(s) |-> IF s[p] = UNDERSCORE THEN SPACE ELSE s[p]]

\* a row of transformRules; alts are the alternatives of the pattern in the
\* order the regex tries them, anchored its leading ^; a row without
\* redirectToCommons has it FALSE (undefined is falsy)
TitleRule(alts, anchored, rep, redirect) ==
    [alts |-> alts, anchored |-> anchored, replace |-> rep,
     redirectToCommons |-> redirect]

\* a row whose pattern is a plain string
Rename(pat, rep) == TitleRule(<<pat>>, FALSE, rep, FALSE)

\* transformRules of part_000
TransformRules000 ==
    << Rename(<<"Category:", "Tool">>, <<"Category:", "Lingua Libre tool">>),
       Rename(<<"Category:", "Speakers", SPACE, "in">>,
              <<"Category:", "Voice contributors in">>),
       Rename(<<"LinguaLibre:">>, <<"Commons:", "Lingua Libre/">>),
       Rename(<<"List:">>, <<"Commons:", "Lingua Libre/Lists/">>),
       Rename(<<"Welcome/">>, <<"Welcome-LL/">>),
       Rename(<<"Help:", "Main">>, <<"Help:", "Lingua Libre">>),
       Rename(<<"Help:">>, <<"Help:", "Lingua Libre/">>),
       TitleRule(<< <<"User:">>, <<"Category:">>, <<"Translations:">>,
                    <<"Template:">> >>, TRUE, <<WHOLEMATCH>>, TRUE) >>

\* transformRules of migratedToCommons.js
TransformRulesJs ==
    << Rename(<<"Category:", "Tool">>, <<"Category:", "Lingua Libre tool">>),
       Rename(<<"Category:", "Events">>, <<"Category:", "Lingua Libre events">>),
       Rename(<<"Category:", "Speakers", SPACE, "in">>,
              <<"Category:", "Voice contributors in">>),
       Rename(<<"Category:", "Speakers", SPACE, "by">>,
              <<"Category:", "Voice contributors by">>),
       Rename(<<"User:">>, <<"User:">>),
       Rename(<<"LL:">>, <<"Commons:", "Lingua Libre/">>),
       TitleRule(<< <<"|", "LinguaLibre:">>, <<"|", "Lingualibre:">> >>, FALSE,
                 <<"|", "Lingua Libre/">>, FALSE),
       TitleRule(<< <<"LinguaLibre:">>, <<"Lingualibre:">> >>, FALSE,
                 <<"Commons:", "Lingua Libre/">>, FALSE),
       Rename(<<"LinguaLibre:", "Help">>, <<"Help:", "Lingua Libre">>),
       Rename(<<"Help:">>, <<"Help:", "Lingua Libre/">>),
       Rename(<<"Help:", "Main">>, <<"Help:", "Lingua Libre">>),
       Rename(<<"List:", "Teochew", SPACE>>, <<"List:", "Teochew/Teochew-">>),
       Rename(<<"List:", "CY/", SPACE>>, <<"List:", "Cym">>),
       Rename(<<"List:">>, <<"Commons:", "Lingua Libre/List/">>),
       Rename(<<"Translations:">>, <<"Translations:">>),
       Rename(<<"Template:">>, <<"Template:">>),
       Rename(<<"Welcome/">>, <<"Welcome-LL/">>) >>

\* the table of the version that runs
transformRules ==
    IF script = Part000 THEN TransformRules000 ELSE TransformRulesJs

\* the length of the match of the rule's pattern at position p of s, 0 if none
TitleMatchLen(s, p, rule) ==
    IF rule.anchored /\ p # 1 THEN 0
    ELSE LET hits == {a \in 1..Len(rule.alts) : MatchAt(s, p, rule.alts[a])}
         IN IF hits = {} THEN 0
            ELSE Len(rule.alts[CHOOSE a \in hits : \A b \in hits : a <= b])

\* s.replace(regex, rule.replace) from position p on, the regex being global
RECURSIVE TitleReplaceFrom(_, _, _)
TitleReplaceFrom(s, p, rule) ==
    IF p > Len(s) THEN <<>>
    ELSE LET n == TitleMatchLen(s, p, rule)
         IN IF n = 0
            THEN <<s[p]>> \o TitleReplaceFrom(s, p + 1, rule)
            ELSE ExpandTemplate(rule.replace, SubSeq(s, p, p + n - 1))
                 \o TitleReplaceFrom(s, p + n, rule)

\* transformed.replace(new RegExp(rule.match, 'g'), rule.replace)
TitleReplace(s, rule) == TitleReplaceFrom(s, 1, rule)

\* regex.test(s) right after the replace, which leaves lastIndex at 0
RegexTest(s, rule) == \E p \in 1..Len(s) : TitleMatchLen(s, p, rule) > 0

\* `if (newPageTitle)`: null and the empty string are falsy
TruthyTitle(v) == ~v.isNull /\ v.text # <<>>

\* a reply to the Commons query: whether fetch resolved, whether the body
\* parsed as JSON, whether the JSON is null, has query and query.pages, the
\* keys of query.pages, and the revisions array of the first page
Reply(fetchOk, jsonOk, dataNull, hasQuery, hasPages, ids, revDefined, revLen) ==
    [fetchOk |-> fetchOk, jsonOk |-> jsonOk, dataNull |-> dataNull,
     hasQuery |-> hasQuery, hasPages |-> hasPages, ids |-> ids,
     revDefined |-> revDefined, revLen |-> revLen]

ReplyNetworkError == Reply(FALSE, FALSE, FALSE, FALSE, FALSE, <<>>, FALSE, 0)
ReplyNotJson == Reply(TRUE, FALSE, FALSE, FALSE, FALSE, <<>>, FALSE, 0)
ReplyNull == Reply(TRUE, TRUE, TRUE, FALSE, FALSE, <<>>, FALSE, 0)
ReplyNoQuery == Reply(TRUE, TRUE, FALSE, FALSE, FALSE, <<>>, FALSE, 0)
ReplyNoPages == Reply(TRUE, TRUE, FALSE, TRUE, FALSE, <<>>, FALSE, 0)
ReplyEmptyPages == Reply(TRUE, TRUE, FALSE, TRUE, TRUE, <<>>, FALSE, 0)
ReplyMissing == Reply(TRUE, TRUE, FALSE, TRUE, TRUE, <<"-1">>, FALSE, 0)
ReplyNoRevisions == Reply(TRUE, TRUE, FALSE, TRUE, TRUE, <<"123">>, FALSE, 0)
ReplyEmptyRevisions == Reply(TRUE, TRUE, FALSE, TRUE, TRUE, <<"123">>, TRUE, 0)
ReplyExists == Reply(TRUE, TRUE, FALSE, TRUE, TRUE, <<"123">>, TRUE, 1)

ReplyPool ==
    {ReplyNetworkError, ReplyNotJson, ReplyNull, ReplyNoQuery, ReplyNoPages,
     ReplyEmptyPages, ReplyMissing, ReplyNoRevisions, ReplyEmptyRevisions,
     ReplyExists}

\* what pageExistsOnCommons settles with: a rejection, or a value
\* ("true", "false", "undefined") and whether console.error was called
Settled(threw, logged, value) ==
    [threw |-> threw, logged |-> logged, value |-> value]

\* mutant: the catch block rethrows
OnCheckErrorRethrown == Settled(TRUE, TRUE, "unset")

\* the catch block of pageExistsOnCommons: console.error, return false
OnCheckError == Settled(FALSE, TRUE, "false")

\* mutant: a page with a revisions array counts, even an empty one
RevisionsDefined(reply) == IF reply.revDefined THEN "true" ELSE "undefined"

\* page.revisions && page.revisions.length > 0
RevisionsResult(reply) ==
    IF ~reply.revDefined THEN Undefined
    ELSE IF reply.revLen > 0 THEN "true" ELSE "false"

\* pageExistsOnCommons, given the reply of the remote
PageExistsOnCommons(reply) ==
    IF ~reply.fetchOk \/ ~reply.jsonOk \/ reply.dataNull THEN OnCheckError
    ELSE IF ~reply.hasQuery \/ ~reply.hasPages THEN Settled(FALSE, FALSE, "false")
    ELSE IF reply.ids = <<>> THEN OnCheckError
    ELSE IF reply.ids[1] = "-1" THEN Settled(FALSE, FALSE, "false")
    ELSE Settled(FALSE, FALSE, RevisionsResult(reply))

\* the titles a page is viewed under (wgPageName)
TitleMainPage == <<"LinguaLibre:", "Main", UNDERSCORE, "Page">>
TitleHelpMain == <<"Help:", "Main">>
TitleUser == <<"User:", "Example">>
TitleCategoryTool == <<"Category:", "Tool">>
TitleSpeakers == <<"Category:", "Speakers", UNDERSCORE, "in", UNDERSCORE, "French">>
TitleList == <<"List:", "Example">>
TitleItem == <<"Q42">>
TitleSubpage == <<"Welcome/", "User:", "Example">>

TitlePool ==
    {TitleMainPage, TitleHelpMain, TitleUser, TitleCategoryTool, TitleSpeakers,
     TitleList, TitleItem, TitleSubpage}

\* 'LinguaLibre:Main Page'
MainPage == <<"LinguaLibre:", "Main", SPACE, "Page">>

ViewOrNot == TRUE
\* `if (action !== 'view') return;` is passed
ViewOnly == wgAction = "view"

\* init up to the call of transformPageTitle
PageInit ==
    /\ prog = "page" /\ pc = "init"
    /\ pageTitle' = UnderscoresToSpaces(wgPageName)
    /\ IF ~ViewOnly
       THEN /\ pc' = "done"
            /\ initResult' = "resolved"
            /\ UNCHANGED <<transformed, hasChanged, ruleIdx>>
       ELSE /\ transformed' = UnderscoresToSpaces(wgPageName)
            /\ hasChanged' = FALSE
            /\ ruleIdx' = 1
            /\ pc' = "transform"
            /\ UNCHANGED initResult
    /\ UNCHANGED <<cliVars, fetchVars, refreshVars, prog, script, wgAction, wgPageName, hasContent, tested,
                   newPageTitle, requested, replies, exists, errorLogged, pageContent,
                   displayBlock, editHidden>>

\* mutant: the pattern of a redirectToCommons rule is tested on the current title
TestedTitleCurrent == transformed

\* the argument of regex.test: the parameter `title`
TestedTitle == pageTitle

\* one iteration of `for (const rule of transformRules)`
TransformRule ==
    /\ prog = "page" /\ pc = "transform"
    /\ ruleIdx <= Len(transformRules)
    /\ LET rule == transformRules[ruleIdx]
           newTitle == TitleReplace(transformed, rule)
       IN IF newTitle # transformed
          THEN /\ transformed' = IF newTitle # <<>> THEN newTitle ELSE pageTitle
               /\ hasChanged' = TRUE
               /\ tested' = NotTested
          ELSE /\ tested' = IF rule.redirectToCommons THEN Tested(TestedTitle)
                            ELSE NotTested
               /\ hasChanged' = IF rule.redirectToCommons /\ RegexTest(TestedTitle, rule)
                                THEN TRUE ELSE hasChanged
               /\ UNCHANGED transformed
    /\ ruleIdx' = ruleIdx + 1
    /\ UNCHANGED <<cliVars, fetchVars, refreshVars, prog, pc, script, wgAction, wgPageName, hasContent,
                   pageTitle, newPageTitle, requested, replies, exists, errorLogged,
                   pageContent, displayBlock, editHidden, initResult>>

\* mutant: null whenever the text is the one that came in
TitleResultIfRewritten ==
    IF transformed # pageTitle THEN SomeTitle(transformed) ELSE NullTitle

\* mutant: the title is returned whether or not a rule acted
TitleResultAlways == SomeTitle(transformed)

\* return hasChanged ? transformed : null
TitleResult == IF hasChanged THEN SomeTitle(transformed) ELSE NullTitle

\* the end of init: the content element is shown (migratedToCommons.js only)
ShownAtEnd == script = MigratedJs /\ hasContent

\* the return of transformPageTitle and `if (newPageTitle)`: the request to
\* Commons, or the end of init
TransformReturn ==
    /\ prog = "page" /\ pc = "transform"
    /\ ruleIdx > Len(transformRules)
    /\ newPageTitle' = TitleResult
    /\ IF TruthyTitle(TitleResult)
       THEN /\ requested' = Append(requested, TitleResult.text)
            /\ pc' = "fetch"
            /\ UNCHANGED <<displayBlock, initResult>>
       ELSE /\ displayBlock' = ShownAtEnd
            /\ initResult' = "resolved"
            /\ pc' = "done"
            /\ UNCHANGED requested
    /\ UNCHANGED <<cliVars, fetchVars, refreshVars, prog, script, wgAction, wgPageName, hasContent,
                   pageTitle, transformed, hasChanged, ruleIdx, tested, replies,
                   exists, errorLogged, pageContent, editHidden>>

RedirectShowsOnMainPage == hasContent
\* showRedirectMessage replaces the content: not for the main page
\* (migratedToCommons.js), not without a content element
RedirectShows ==
    /\ ~(script = MigratedJs /\ pageTitle = MainPage)
    /\ hasContent

\* the reply of Commons, the rest of pageExistsOnCommons and the rest of init
CommonsReply ==
    /\ prog = "page" /\ pc = "fetch"
    /\ \E reply \in ReplyPool :
          LET res == PageExistsOnCommons(reply)
          IN /\ replies' = Append(replies, reply)
             /\ errorLogged' = res.logged
             /\ exists' = res.value
             /\ IF res.threw
                THEN /\ initResult' = "rejected"
                     /\ UNCHANGED <<pageContent, editHidden, displayBlock>>
                ELSE /\ initResult' = "resolved"
                     /\ pageContent' = IF res.value = "true" /\ RedirectShows
                                       THEN "redirect" ELSE pageContent
                     /\ editHidden' = (res.value = "true" /\ RedirectShows
                                       /\ script = MigratedJs)
                     /\ displayBlock' = ShownAtEnd
    /\ pc' = "done"
    /\ UNCHANGED <<cliVars, fetchVars, refreshVars, prog, script, wgAction, wgPageName, hasContent,
                   pageTitle, transformed, hasChanged, ruleIdx, tested,
                   newPageTitle, requested>>

\* the state when the userscript is loaded on a page
InitPage ==
    /\ prog = "page" /\ pc = "init"
    /\ script \in {Part000, MigratedJs}
    /\ wgAction \in {"view", "edit"}
    /\ wgPageName \in TitlePool
    /\ hasContent \in BOOLEAN
    /\ PageLocals
    /\ FetchLocals
    /\ RefreshLocals
    /\ dryRun = FALSE /\ verbose = FALSE /\ testMode = FALSE
    /\ activatedFeatures = {}
    /\ InitLocals

NextPage ==
    \/ PageInit
    \/ TransformRule
    \/ TransformReturn
    \/ CommonsReply

SpecPage == InitPage /\ [][NextPage]_vars

\* ------------------------------------- namespace fetcher (fetchPagesInNamespace)

\* the two versions of the fetcher: with and without the retry
Part002 == "part_002"
UserscriptPages == "userscript-pages.js"

\* what a request to the allpages API ends with: a page of results with or
\* without data.continue, HTTP 503, a rejected fetch whose message holds
\* "NetworkError", or another failure (HTTP 404, data.error, "Failed to fetch")
Outcomes == {"more", "last", "503", "NetworkError", "other"}

\* error.message.includes('503') || error.message.includes('NetworkError')
Transient(outcome) == outcome \in {"503", "NetworkError"}

\* fetchPagesInNamespace runs on its own or under processNamespaces
Fetching == prog \in {"fetch", "refresh"}

\* counts are followed up to MaxRequests: MaxRequests stands for that many
\* or more
Counted(n) == IF n < MaxRequests THEN n + 1 ELSE MaxRequests

\* `await fetch(url)` of the current call: the request leaves
FetchRequest ==
    /\ Fetching /\ pc = "call"
    /\ sent' = [sent EXCEPT ![apcontinue] = Counted(@)]
    /\ pc' = "await"
    /\ UNCHANGED <<cliVars, pageVars, refreshVars, prog, script, apcontinue,
                   collectedPages, fetchErrors, callDepth>>

AfterCatchRethrown == "rejected"
\* how the call settles once its catch block has run: `return collectedPages`
AfterCatch == "returned"

\* the rest of the try block and the catch block, up to the next nested
\* call or the return
FetchReply ==
    /\ Fetching /\ pc = "await"
    /\ \E outcome \in Outcomes :
          /\ outcome = "more" => apcontinue < MaxContinue
          /\ collectedPages' = IF outcome \in {"more", "last"}
                               THEN collectedPages \cup {apcontinue}
                               ELSE collectedPages
          /\ fetchErrors' = IF outcome \in {"more", "last"} THEN fetchErrors
                            ELSE Counted(fetchErrors)
          /\ pc' = IF outcome = "more" THEN "continue"
                   ELSE IF outcome = "last" THEN "returned"
                   ELSE IF Transient(outcome) /\ script = Part002 THEN "backoff"
                   ELSE AfterCatch
    /\ UNCHANGED <<cliVars, pageVars, refreshVars, prog, script, apcontinue,
                   sent, callDepth>>

\* the nested call for the next page of results (after 400 ms in part_002)
ContinueCall ==
    /\ Fetching /\ pc = "continue"
    /\ apcontinue' = apcontinue + 1
    /\ callDepth' = Counted(callDepth)
    /\ pc' = "call"
    /\ UNCHANGED <<cliVars, pageVars, refreshVars, prog, script, sent,
                   collectedPages, fetchErrors>>

\* after 3 s: `return await fetchPagesInNamespace(nsId, nsTitle, apcontinue,
\* collectedPages)`, the nested call having its own catch block and retry
BackoffCall ==
    /\ Fetching /\ pc = "backoff"
    /\ callDepth' = Counted(callDepth)
    /\ pc' = "call"
    /\ UNCHANGED <<cliVars, pageVars, refreshVars, prog, script, apcontinue,
                   sent, collectedPages, fetchErrors>>

\* the state when fetchPagesInNamespace(ns.id, ns.title) is called
InitFetch ==
    /\ prog = "fetch" /\ pc = "call"
    /\ script \in {Part002, UserscriptPages}
    /\ wgAction = "view" /\ wgPageName = <<>> /\ hasContent = FALSE
    /\ PageLocals
    /\ FetchLocals
    /\ RefreshLocals
    /\ dryRun = FALSE /\ verbose = FALSE /\ testMode = FALSE
    /\ activatedFeatures = {}
    /\ InitLocals

NextFetch ==
    \/ FetchRequest
    \/ FetchReply
    \/ ContinueCall
    \/ BackoffCall

SpecFetch == InitFetch /\ [][NextFetch]_vars

\* ------------------------------------- namespace manager (processNamespaces)

\* `attempts < 50`: the polls of namespacesLoaded one invocation makes
MaxAttempts == 50

\* what localStorage holds for one namespace title
NotStored == [has |-> FALSE, pages |-> {}]
Stored(pages) == [has |-> TRUE, pages |-> pages]

\* a namespace entry before any refresh
Entry == [quantity |-> 0, pages |-> {}, stored |-> NotStored]

\* fetch('./json/namespaces.json') settles: the list is assigned and
\* namespacesLoaded set, or the catch block alerts
NamespacesJson ==
    /\ prog = "refresh" /\ script = Part002 /\ jsonState = "pending"
    /\ \/ \E n \in 0..MaxNamespaces :
             /\ namespaces' = [x \in 1..n |-> Entry]
             /\ namespacesLoaded' = TRUE
             /\ jsonState' = "loaded"
       \/ /\ jsonState' = "failed"
          /\ UNCHANGED <<namespaces, namespacesLoaded>>
    /\ UNCHANGED <<cliVars, pageVars, fetchVars, prog, pc, script, isRefreshing,
                   inv, nsIdx, refreshBtn, disabledBtns, loadErrors>>

\* createModal: the overlay in the document is removed and a new one built,
\* with a refresh button of its own that is not disabled
CreateModal ==
    /\ prog = "refresh"
    /\ refreshBtn < MaxModals
    /\ refreshBtn' = refreshBtn + 1
    /\ UNCHANGED <<cliVars, pageVars, fetchVars, prog, pc, script, jsonState,
                   namespacesLoaded, namespaces, isRefreshing, inv, nsIdx,
                   disabledBtns, loadErrors>>

\* the first statements of the loop body: fetchPagesInNamespace(ns.id,
\* ns.title) is called with a new set
CallFetch(n) ==
    /\ nsIdx' = n
    /\ apcontinue' = 0
    /\ sent' = [c \in 0..MaxContinue |-> 0]
    /\ collectedPages' = {}
    /\ fetchErrors' = 0
    /\ callDepth' = 0
    /\ pc' = "call"

PollAgainOnceMore(a) == ~namespacesLoaded /\ a <= MaxAttempts
\* `while (!namespacesLoaded && attempts < 50)`
PollAgain(a) == ~namespacesLoaded /\ a < MaxAttempts

GuardOpen == FALSE
\* `if (isRefreshing) return;`
GuardBlocks == isRefreshing

\* the report of the load error and the return
LoadError(k) ==
    /\ inv' = [inv EXCEPT ![k] = [at |-> "noload", attempts |-> 0, btn |-> 0]]
    /\ loadErrors' = loadErrors \cup {k}
    /\ UNCHANGED <<pc, fetchVars, isRefreshing, nsIdx, disabledBtns>>

\* from the guard to the first request of the run: all of it runs in one
\* turn of the event loop
Guard(k) ==
    IF GuardBlocks
    THEN /\ inv' = [inv EXCEPT ![k] = [at |-> "blocked", attempts |-> 0, btn |-> 0]]
         /\ UNCHANGED <<pc, fetchVars, isRefreshing, nsIdx, disabledBtns,
                        loadErrors>>
    ELSE /\ isRefreshing' = TRUE
         /\ disabledBtns' = IF refreshBtn # 0 THEN disabledBtns \cup {refreshBtn}
                            ELSE disabledBtns
         /\ inv' = [inv EXCEPT ![k] = [at |-> "running", attempts |-> 0,
                                       btn |-> refreshBtn]]
         /\ CallFetch(1)
         /\ UNCHANGED loadErrors

\* processNamespaces after the polling loop, or from its start when the loop
\* is not entered
AfterPoll(k) ==
    IF script = Part002 /\ (~namespacesLoaded \/ Len(namespaces) = 0)
    THEN LoadError(k)
    ELSE Guard(k)

\* a click on the refresh button of the document: processNamespaces up to
\* its first await
ClickRefresh(k) ==
    /\ prog = "refresh"
    /\ inv[k].at = "idle"
    /\ \A j \in 1..(k - 1) : inv[j].at # "idle"
    /\ refreshBtn # 0 /\ refreshBtn \notin disabledBtns
    /\ IF script = Part002 /\ PollAgain(0)
       THEN /\ inv' = [inv EXCEPT ![k].at = "waiting"]
            /\ UNCHANGED <<pc, fetchVars, isRefreshing, nsIdx, disabledBtns,
                           loadErrors>>
       ELSE AfterPoll(k)
    /\ UNCHANGED <<cliVars, pageVars, prog, script, jsonState, namespacesLoaded,
                   namespaces, refreshBtn>>

\* the 100 ms timer of the polling loop fires: attempts++, the loop
\* condition, and what follows the loop when it ends
PollTick(k) ==
    /\ prog = "refresh"
    /\ inv[k].at = "waiting"
    /\ LET a == inv[k].attempts + 1
       IN  IF PollAgain(a)
           THEN /\ inv' = [inv EXCEPT ![k].attempts = a]
                /\ UNCHANGED <<pc, fetchVars, isRefreshing, nsIdx, disabledBtns,
                               loadErrors>>
           ELSE AfterPoll(k)
    /\ UNCHANGED <<cliVars, pageVars, prog, script, jsonState, namespacesLoaded,
                   namespaces, refreshBtn>>

\* saveToLocalStorage(ns.title, ns.pages) of part_002, the storage
\* accepting the item
SaveToLocalStorage(before, pages) ==
    IF script = Part002 THEN Stored(pages) ELSE before

\* the end of the run: isRefreshing = false and the captured button enabled
EndRun(k) ==
    /\ isRefreshing' = FALSE
    /\ disabledBtns' = disabledBtns \ {inv[k].btn}
    /\ inv' = [inv EXCEPT ![k].at = "done"]
    /\ pc' = "idle"
    /\ UNCHANGED <<fetchVars, nsIdx>>

\* fetchPagesInNamespace settled: the rest of the loop body, or the catch
\* block of the loop when the call rejected
NamespaceDone(k) ==
    /\ prog = "refresh"
    /\ inv[k].at = "running"
    /\ pc \in {"returned", "rejected"}
    /\ IF pc = "returned"
       THEN /\ namespaces' =
                  [namespaces EXCEPT ![nsIdx] =
                      [quantity |-> Cardinality(collectedPages),
                       pages |-> collectedPages,
                       stored |-> SaveToLocalStorage(@.stored, collectedPages)]]
            /\ IF nsIdx < Len(namespaces)
               THEN /\ inv' = [inv EXCEPT ![k].at = "delay"]
                    /\ pc' = "idle"
                    /\ UNCHANGED <<fetchVars, isRefreshing, nsIdx, disabledBtns>>
               ELSE EndRun(k)
       ELSE /\ UNCHANGED namespaces
            /\ IF nsIdx < Len(namespaces)
               THEN /\ CallFetch(nsIdx + 1)
                    /\ UNCHANGED <<inv, isRefreshing, disabledBtns>>
               ELSE EndRun(k)
    /\ UNCHANGED <<cliVars, pageVars, prog, script, jsonState, namespacesLoaded,
                   refreshBtn, loadErrors>>

\* the delay between two namespaces is over: the next iteration
NextNamespace(k) ==
    /\ prog = "refresh"
    /\ inv[k].at = "delay"
    /\ inv' = [inv EXCEPT ![k].at = "running"]
    /\ CallFetch(nsIdx + 1)
    /\ UNCHANGED <<cliVars, pageVars, prog, script, jsonState, namespacesLoaded,
                   namespaces, isRefreshing, refreshBtn, disabledBtns, loadErrors>>

\* the state once the userscript has been evaluated: part_002 has asked for
\* namespaces.json, userscript-pages.js holds its table
InitRefresh ==
    /\ prog = "refresh" /\ pc = "idle"
    /\ script \in {Part002, UserscriptPages}
    /\ wgAction = "view" /\ wgPageName = <<>> /\ hasContent = FALSE
    /\ PageLocals
    /\ FetchLocals
    /\ IF script = Part002
       THEN /\ jsonState = "pending" /\ namespacesLoaded = FALSE
            /\ namespaces = <<>>
       ELSE /\ jsonState = "none" /\ namespacesLoaded = TRUE
            /\ namespaces = [x \in 1..MaxNamespaces |-> Entry]
    /\ isRefreshing = FALSE
    /\ inv = [k \in 1..MaxClicks |-> NotInvoked]
    /\ nsIdx = 0 /\ refreshBtn = 0 /\ disabledBtns = {} /\ loadErrors = {}
    /\ dryRun = FALSE /\ verbose = FALSE /\ testMode = FALSE
    /\ activatedFeatures = {}
    /\ InitLocals

NextRefresh ==
    \/ NamespacesJson
    \/ CreateModal
    \/ \E k \in 1..MaxClicks : ClickRefresh(k)
    \/ \E k \in 1..MaxClicks : PollTick(k)
    \/ FetchRequest
    \/ FetchReply
    \/ ContinueCall
    \/ BackoffCall
    \/ \E k \in 1..MaxClicks : NamespaceDone(k)
    \/ \E k \in 1..MaxClicks : NextNamespace(k)

SpecRefresh == InitRefresh /\ [][NextRefresh]_vars

\* the steps the event loop takes by itself: timers fire, requests settle
\* and continuations run; clicks and the loading of namespaces.json may
\* never happen
EventLoop ==
    \/ \E k \in 1..MaxClicks : PollTick(k)
    \/ FetchRequest
    \/ FetchReply
    \/ ContinueCall
    \/ BackoffCall
    \/ \E k \in 1..MaxClicks : NamespaceDone(k)
    \/ \E k \in 1..MaxClicks : NextNamespace(k)

SpecRefreshFair == SpecRefresh /\ WF_vars(EventLoop)

\* ------------------------------------------------------------ specifications

Next ==
    \/ LoadRules
    \/ RunTestCase
    \/ ExitTests
    \/ ListFiles
    \/ ReadFile
    \/ ApplyRule
    \/ EmitFile
    \/ Summary
    \/ ShListFiles
    \/ ShProcessFile
    \/ ShSummary

Spec == Init /\ [][Next]_vars

\* the rule engine on one document (or on the test table) for every rule
\* list up to MaxRules: the state after rules were loaded and ./xml listed
InitEngine ==
    /\ prog = "node"
    /\ dryRun \in BOOLEAN
    /\ verbose \in BOOLEAN
    /\ testMode \in BOOLEAN
    /\ activatedFeatures \in SUBSET Features
    /\ rulesKind = "array"
    /\ rules \in RuleLists
    /\ IF testMode
       THEN /\ pc = "test" /\ t = 1 /\ i = 0
            /\ xmlDir = <<>> /\ output = <<>> /\ outputDirExists = FALSE
       ELSE /\ pc = "file" /\ t = 0 /\ i = 1
            /\ \E d \in DocPool : xmlDir = <<File(d, TRUE)>>
            /\ output = <<NotWritten>>
            /\ outputDirExists = ~dryRun
    /\ content = <<>> /\ modified = <<>> /\ changesCount = 0
    /\ changes = <<>> /\ r = 0 /\ applied = {} /\ filesRead = {}
    /\ ruleErrors = {} /\ fileErrors = {} /\ totalChanges = 0 /\ reported = {}
    /\ passed = 0 /\ failed = 0 /\ loadError = FALSE /\ summary = {}
    /\ exitCode = Running
    /\ WebIdle

NextEngine ==
    \/ RunTestCase
    \/ ExitTests
    \/ ReadFile
    \/ ApplyRule
    \/ EmitFile
    \/ Summary

SpecEngine == InitEngine /\ [][NextEngine]_vars

\* --------------------------------------------------------------- properties

\* the feature gate as specified: no requires field, or the feature is activated
GatePasses(rule, features) ==
    rule.requires = Undefined \/ rule.requires \in features

\* the rules of rs that pass the gate, in their order
ActiveRules(rs, features) == SelectSeq(rs, LAMBDA x : GatePasses(x, features))

\* the left fold of a rule sequence over a text, every rule applied:
\* [text |-> the final text, count |-> the sum of the amounts added]
RECURSIVE FoldRules(_, _)
FoldRules(rs, text) ==
    IF rs = <<>> THEN [text |-> text, count |-> 0]
    ELSE LET step == RuleStep(Head(rs), text, 0)
             rest == FoldRules(Tail(rs), step.text)
         IN [text |-> rest.text, count |-> step.added + rest.count]

InApplyRules == prog = "node" /\ pc = "rules"
ApplyRulesDone == InApplyRules /\ r > Len(rules)

\* C1: inside applyRules the current text is the left fold, in declared
\* order, of the active rules handled so far over the text of the document;
\* the text applyRules returns is the fold of all of them
C1_Cascade ==
    InApplyRules =>
        modified = FoldRules(ActiveRules(SubSeq(rules, 1, r - 1), activatedFeatures),
                             content).text

\* two rules that interact ran in declared order: a -> b, then b -> a
C1_Witness ==
    /\ ApplyRulesDone
    /\ rules = <<RuleAB, RuleBA>>
    /\ content = DocPlain
    /\ modified = <<"a", "a", "a">>
    /\ modified # FoldRules(<<RuleBA, RuleAB>>, content).text

\* C2: the rules applied are exactly those without a requires field and
\* those whose feature is activated, in applyRules and in applyTestRules
C2_FeatureGate ==
    /\ InApplyRules =>
          applied = {k \in 1..(r - 1) : GatePasses(rules[k], activatedFeatures)}
    /\ (prog = "node" /\ pc = "test" /\ t > 1) =>
          applied = {k \in 1..Len(rules) : GatePasses(rules[k], activatedFeatures)}

\* applyTestRules handled a gated rule with its feature activated and an ungated one
C2_Witness ==
    /\ prog = "node" /\ pc = "test" /\ t > 1
    /\ activatedFeatures = {"list"}
    /\ rules = <<RuleList, RuleAB>>
    /\ applied = {1, 2}

\* C3: with no feature activated, applyRules returns the text and the change
\* count of the same run with every rule that has a requires field removed
C3_GatedRulesInert ==
    (ApplyRulesDone /\ activatedFeatures = {}) =>
        LET ungated == SelectSeq(rules, LAMBDA x : x.requires = Undefined)
        IN /\ modified = FoldRules(ungated, content).text
           /\ changesCount = FoldRules(ungated, content).count

\* a gated rule whose pattern occurs in the document was passed over
C3_Witness ==
    /\ ApplyRulesDone /\ activatedFeatures = {}
    /\ rules = <<RuleGated, RuleAB>>
    /\ content = DocPlain
    /\ modified = <<"b", "b", "b">>
    /\ changesCount = 2

HOLE == "..."

\* the text with the interior of every <text ...>...</text> region replaced
\* by one placeholder: what lies outside the regions, and their markers
RECURSIVE OutsideFrom(_, _)
OutsideFrom(s, p) ==
    IF p > Len(s) THEN <<>>
    ELSE IF RegionAt(s, p)
         THEN SubSeq(s, p, TagEnd(s, p)) \o <<HOLE, CLOSE>>
              \o OutsideFrom(s, CloseAfter(s, TagEnd(s, p)) + 1)
         ELSE <<s[p]>> \o OutsideFrom(s, p + 1)

Outside(s) == OutsideFrom(s, 1)

LineRuleStep ==
    /\ InApplyRules /\ r <= Len(rules)
    /\ rules[r].process = "lineByLine"

\* C4: a step of a lineByLine rule leaves everything outside the regions,
\* and the opening and closing marker of every region, as they were
C4_OutsideUntouched ==
    [][LineRuleStep => Outside(modified') = Outside(modified)]_vars

\* a lineByLine rule rewrote the interior of two regions of a document whose
\* opening tag and surroundings hold the pattern too
C4_Witness ==
    /\ InApplyRules /\ r = 2
    /\ rules[1] = RuleLines
    /\ content = DocTwoRegions
    /\ modified # content
    /\ Outside(modified) = Outside(content)

\* a step of applyRules on a rule that passes the gate and compiles
ActiveStep ==
    /\ InApplyRules /\ r <= Len(rules)
    /\ GatePasses(rules[r], activatedFeatures)
    /\ rules[r].valid

\* C5 (as claimed): a whole-text rule adds to the change count the number of
\* non-overlapping matches of its pattern in the text before the replacement
C5_CountsMatches ==
    [][(ActiveStep /\ rules[r].process # "lineByLine") =>
          changesCount' - changesCount = CountMatches(modified, rules[r].match)]_vars

\* the region interiors of a text, as found left to right from position p,
\* each split into lines: the sequence of all those lines
RECURSIVE RegionLinesFrom(_, _)
RegionLinesFrom(s, p) ==
    IF p > Len(s) THEN <<>>
    ELSE IF RegionAt(s, p)
         THEN SplitLines(SubSeq(s, TagEnd(s, p) + 1, CloseAfter(s, TagEnd(s, p)) - 1))
              \o RegionLinesFrom(s, CloseAfter(s, TagEnd(s, p)) + 1)
         ELSE RegionLinesFrom(s, p + 1)

RegionLines(s) == RegionLinesFrom(s, 1)

RECURSIVE SumOver(_, _)
SumOver(ls, pat) ==
    IF ls = <<>> THEN 0 ELSE CountMatches(Head(ls), pat) + SumOver(Tail(ls), pat)

ActiveLineStep == ActiveStep /\ rules[r].process = "lineByLine"

\* C6 (as claimed): a lineByLine rule adds the sum over all lines of all
\* regions of the number of matches on the line
C6_CountsLineMatches ==
    [][ActiveLineStep =>
          changesCount' - changesCount = SumOver(RegionLines(modified), rules[r].match)]_vars

\* C6 (amended): a lineByLine rule adds the number of lines of all regions
\* that hold a match and that the replacement changes: 1 per line, not k
C6_CountsChangedLines ==
    [][ActiveLineStep =>
          LET ls == RegionLines(modified)
              global == IsGlobal(EffectiveFlags(rules[r]))
              rep == ExpandNewlines(rules[r].replace)
          IN changesCount' - changesCount =
                 Cardinality({n \in 1..Len(ls) :
                                 /\ CountMatches(ls[n], rules[r].match) > 0
                                 /\ StringReplace(ls[n], rules[r].match, rep, global)
                                        # ls[n]})]_vars

\* a lineByLine rule ran on a region whose first line holds two matches and
\* whose second line holds none: one was added
C6_Witness ==
    /\ InApplyRules /\ r = 2
    /\ rules[1] = RuleLines
    /\ content = DocRegion
    /\ SumOver(RegionLines(content), <<"a">>) = 2
    /\ changesCount = 1

\* C7: a rule whose pattern does not compile is reported and is a no-op:
\* text, change count and log stay as they were, no file error is raised,
\* and the loop goes on with the next rule of the same document
C7_BadRuleIsNoOp ==
    [][(InApplyRules /\ r <= Len(rules)
          /\ GatePasses(rules[r], activatedFeatures) /\ ~rules[r].valid) =>
          /\ modified' = modified
          /\ changesCount' = changesCount
          /\ changes' = changes
          /\ <<i, r>> \in ruleErrors'
          /\ fileErrors' = fileErrors
          /\ pc' = "rules" /\ i' = i /\ r' = r + 1]_vars

\* a run of two documents ended: in both the bad rule was reported and the
\* rule after it was applied, and both documents were written
C7_Witness ==
    /\ prog = "node" /\ pc = "done"
    /\ rules = <<RuleBad, RuleAB>>
    /\ ruleErrors = {<<1, 1>>, <<2, 1>>}
    /\ totalChanges > 0
    /\ \A k \in 1..2 : output[k].written /\ output[k].content # xmlDir[k].content

\* C8 (as claimed): without a rule list the run ends with a load error
\* before a document is read, a test case is run or anything is written
C8_NoRunWithoutRules ==
    (prog = "node" /\ pc # "load" /\ rulesKind # "array") =>
        /\ loadError /\ exitCode = 1 /\ pc = "exit"
        /\ filesRead = {} /\ ~outputDirExists

\* C9: in dry-run mode ./output is never created, nothing is written to it,
\* and no file of ./xml changes, in clean-xml.js and in xml_updater.sh
C9_DryRunWritesNothing ==
    /\ [](dryRun => (~outputDirExists /\ \A k \in DOMAIN output : ~output[k].written))
    /\ [][(dryRun /\ pc # "checkdir") => xmlDir' = xmlDir]_vars

\* a dry run of clean-xml.js ended with changes counted
C9_Witness ==
    /\ prog = "node" /\ dryRun /\ pc = "done"
    /\ totalChanges > 0
    /\ Len(xmlDir) = 2

\* C10 (as claimed): after a live run every document that was read and
\* written without an I/O error has its file in ./output, holding the
\* rewritten text, which is the text read when nothing changed
C10_OutputComplete ==
    (prog = "node" /\ ~dryRun /\ pc = "done") =>
        \A k \in 1..Len(xmlDir) :
            (<<k, "read">> \notin fileErrors /\ <<k, "write">> \notin fileErrors) =>
                /\ output[k].written
                /\ output[k].content =
                       FoldRules(ActiveRules(rules, activatedFeatures),
                                 xmlDir[k].content).text

\* the documents of the run that ended in the catch of the file loop
FailedDocs ==
    {f \in 1..Len(xmlDir) : \E cause \in {"read", "apply", "write"} :
                                <<f, cause>> \in fileErrors}

\* C11: a document whose reading or writing fails is reported, leaves the
\* running total of changes as it was before that document, and the loop
\* goes on with the next document
C11_FailureIsLocal ==
    [][\A cause \in {"read", "write"} :
          (<<i, cause>> \in fileErrors' /\ <<i, cause>> \notin fileErrors)
          => /\ totalChanges' = totalChanges
             /\ i' = i + 1
             /\ pc' = "file"]_vars

\* C12: the closing summary of clean-xml.js states the number of documents,
\* the total of changes and the number of failed documents, and does not
\* announce success when a document failed
C12_SummaryReportsFailures ==
    (prog = "node" /\ pc = "done")
    => /\ <<"documents", Len(xmlDir)>> \in summary
       /\ <<"total changes", totalChanges>> \in summary
       /\ <<"failed", Cardinality(FailedDocs)>> \in summary
       /\ (FailedDocs # {} => <<"completed successfully", 0>> \notin summary)

\* C20: a test run over a loaded rule array runs every entry of the test
\* table, counts each as passed or failed, exits with 0 exactly when none
\* failed, and touches neither ./xml nor ./output
C20_TestModeCountsAndExits ==
    (prog = "node" /\ testMode /\ pc = "exit" /\ rulesKind = "array")
    => /\ passed + failed = Len(TestCases(activatedFeatures))
       /\ (exitCode = 0 <=> failed = 0)
       /\ filesRead = {} /\ xmlDir = <<>>
       /\ output = <<>> /\ ~outputDirExists

\* the title as the rules before rule k leave it, in array order
RECURSIVE TitleBefore(_, _, _)
TitleBefore(rs, k, title) ==
    IF k = 1 THEN title
    ELSE LET prev == TitleBefore(rs, k - 1, title)
             next == TitleReplace(prev, rs[k - 1])
         IN IF next = prev THEN prev
            ELSE IF next # <<>> THEN next ELSE title

\* rule k rewrites the title it receives
Acts(rs, k, title) ==
    TitleReplace(TitleBefore(rs, k, title), rs[k]) # TitleBefore(rs, k, title)

\* a redirectToCommons rule matches the title
RedirectMatches(rs, title) ==
    \E k \in 1..Len(rs) : rs[k].redirectToCommons /\ RegexTest(title, rs[k])

\* transformPageTitle has returned to init
Transformed == prog = "page" /\ wgAction = "view" /\ pc \in {"fetch", "done"}

\* C13: transformPageTitle returns null exactly when no rule rewrote the title
\* and no redirectToCommons rule matched; init then asks nothing of Commons
\* and leaves the page as it is
C13_NullIffNothingApplies ==
    Transformed
    => /\ newPageTitle.isNull
          <=> /\ \A k \in 1..Len(transformRules) : ~Acts(transformRules, k, pageTitle)
              /\ ~RedirectMatches(transformRules, pageTitle)
       /\ newPageTitle.isNull
          => /\ requested = <<>> /\ replies = <<>>
             /\ pageContent = "original" /\ ~editHidden

C13_Witness ==
    /\ Transformed /\ pc = "done"
    /\ newPageTitle.isNull
    /\ pageTitle = TitleItem

\* the title matches a redirectToCommons rule and no rule rewrites it
RedirectOnly ==
    /\ Transformed
    /\ \A k \in 1..Len(transformRules) : ~Acts(transformRules, k, pageTitle)
    /\ RedirectMatches(transformRules, pageTitle)

\* C14: for a title that only a redirectToCommons rule matches (User:Example
\* against ^(User:...) with replacement $1) the new title is none
C14_RedirectOnlyIsNone == RedirectOnly => newPageTitle.isNull

\* C14, amended: for such a title transformPageTitle returns the title
\* itself, and init asks Commons for it
C14_RedirectOnlyReturnsTitle ==
    RedirectOnly
    => /\ newPageTitle = SomeTitle(pageTitle)
       /\ requested = <<pageTitle>>

C14_Witness ==
    /\ RedirectOnly
    /\ script = Part000
    /\ pageTitle = TitleUser
    /\ pc = "done"

\* a step of the loop of transformPageTitle over a redirectToCommons rule
RedirectRuleStep ==
    /\ prog = "page" /\ pc = "transform"
    /\ ruleIdx <= Len(transformRules)
    /\ ruleIdx' = ruleIdx + 1
    /\ transformRules[ruleIdx].redirectToCommons

\* C15: the pattern of a redirectToCommons rule is tested on the current
\* title (as the earlier rules left it), and the title counts as migrated
\* after the rule iff it did before, the rule rewrote it, or the pattern
\* matches the current title
C15_TestsCurrentTitle ==
    [][RedirectRuleStep
       => /\ tested'.called => tested'.text = transformed
          /\ hasChanged' <=> \/ hasChanged
                             \/ transformed' # transformed
                             \/ RegexTest(transformed, transformRules[ruleIdx])]_vars

\* C15, amended: the pattern is tested on the title init passed in, and only
\* when the rule's replacement left the current title as it was
C15_TestsOriginalTitle ==
    [][RedirectRuleStep
       => /\ tested'.called <=> transformed' = transformed
          /\ tested'.called => tested'.text = pageTitle
          /\ hasChanged' <=> \/ hasChanged
                             \/ transformed' # transformed
                             \/ RegexTest(pageTitle, transformRules[ruleIdx])]_vars

C15_Witness ==
    /\ prog = "page" /\ pc = "transform"
    /\ tested.called
    /\ tested.text # transformed

\* C16: the rules act in array order on the title as rewritten so far:
\* LinguaLibre:Main Page becomes Commons:Lingua Libre/Main Page, and on
\* Help:Main both the Help:Main rule and the Help: rule act
C16_CascadeInOrder ==
    (prog = "page" /\ pc = "transform")
    => /\ transformed = TitleBefore(transformRules, ruleIdx, pageTitle)
       /\ (ruleIdx > Len(transformRules) /\ pageTitle = MainPage)
          => transformed = <<"Commons:", "Lingua Libre/", "Main", SPACE, "Page">>
       /\ pageTitle = TitleHelpMain
          => \A k \in 1..Len(transformRules) :
                transformRules[k].alts \in {<< <<"Help:", "Main">> >>, << <<"Help:">> >>}
                => Acts(transformRules, k, pageTitle)

\* the reply describes an existing page that has a revision
DescribesPage(rp) ==
    /\ rp.fetchOk /\ rp.jsonOk /\ ~rp.dataNull
    /\ rp.hasQuery /\ rp.hasPages
    /\ rp.ids # <<>> /\ rp.ids[1] # "-1"
    /\ rp.revDefined /\ rp.revLen >= 1

\* init has finished after a reply of Commons
Answered == prog = "page" /\ pc = "done" /\ replies # <<>>

\* C17: pageExistsOnCommons yields true exactly when the reply describes an
\* existing page with at least one revision, and the redirect message is
\* shown only then
C17_ExistsIffPageWithRevision ==
    /\ Answered => (exists = "true" <=> DescribesPage(replies[1]))
    /\ pageContent = "redirect" => (Answered /\ exists = "true")

C17_Witness ==
    /\ Answered
    /\ pageContent = "redirect"
    /\ DescribesPage(replies[1])

\* the check failed: fetch rejected, the body is not JSON, or an exception
\* was raised while the reply was read
CheckFailed(rp) ==
    \/ ~rp.fetchOk \/ ~rp.jsonOk \/ rp.dataNull
    \/ (rp.hasQuery /\ rp.hasPages /\ rp.ids = <<>>)

\* C18: when the check fails, the failure is logged, the page keeps its
\* content and stays displayed, no redirect message is shown, and init
\* ends without an error
C18_FailOpen ==
    /\ initResult # "rejected"
    /\ (Answered /\ CheckFailed(replies[1]))
       => /\ errorLogged
          /\ exists = "false"
          /\ pageContent = "original" /\ ~editHidden
          /\ ShownAtEnd => displayBlock
          /\ initResult = "resolved"

C18_Witness ==
    /\ Answered
    /\ CheckFailed(replies[1])
    /\ errorLogged
    /\ script = MigratedJs /\ displayBlock

\* C19: a request that fails with HTTP 503 or a network error is retried at
\* most once: within one top-level call of fetchPagesInNamespace no page of
\* results is asked for more than twice
C19_RetriedAtMostOnce ==
    prog = "fetch" => \A c \in 0..MaxContinue : sent[c] <= 2

\* REPLACEMENTS APPLIED, as the header of xml_updater.sh documents them
Documented ==
    [tok \in {"LinguaLibre:", "Template:", "Help:", "Category:", "List:",
              "Translations:"} |->
        CASE tok = "LinguaLibre:" -> "Commons:Lingua Libre/"
          [] tok = "Template:" -> "Template:LL-"
          [] tok = "Help:" -> "Help:Lingua Libre/"
          [] tok = "Category:" -> "Category:LL-"
          [] tok = "List:" -> "Commons:Lingua Libre/List:"
          [] tok = "Translations:" -> "Translations:"]

\* the text with every documented prefix replaced by its documented target
ApplyDocumented(s) ==
    [p \in 1..Len(s) |-> IF s[p] \in DOMAIN Documented THEN Documented[s[p]]
                         ELSE s[p]]

\* the text holds documented prefixes and plain words only
PrefixesOnly(s) == \A p \in 1..Len(s) : s[p] \in DOMAIN Documented \cup {"a", "b", NL}

\* C21: xml_updater.sh rewrites each prefix of its header into the target the
\* header documents: a file of such prefixes and plain words ends as the
\* header's replacements leave it
C21_DocumentedReplacements ==
    [][(/\ prog = "sh" /\ pc = "file" /\ i' = i + 1
        /\ ~dryRun
        /\ xmlDir[i].readable
        /\ PrefixesOnly(xmlDir[i].content))
       => xmlDir'[i].content = ApplyDocumented(xmlDir[i].content)]_vars

\* the sum of the counts of the entries of a verbose log
RECURSIVE SumCounts(_)
SumCounts(log) ==
    IF log = <<>> THEN 0 ELSE Head(log).count + SumCounts(Tail(log))

\* C22: the verbose log entry written for a rule carries the amount that rule
\* added to the document's change count, and the counts of the log add up to
\* the change count
C22_LogCarriesOwnCount ==
    [][(InApplyRules /\ verbose /\ r' = r + 1)
       => /\ Len(changes') = Len(changes) + 1
             => changes'[Len(changes')].count = changesCount' - changesCount
          /\ SumCounts(changes') = changesCount']_vars

\* C23: while applyRules runs and after it, a change count of 0 means the
\* text is the one that was read, and a rule that alters the text adds at
\* least 1 to the change count
C23_ZeroCountMeansUnchanged ==
    [][(prog = "node" /\ ~testMode /\ rulesKind = "array")
       => /\ changesCount' = 0 => modified' = content'
          /\ (InApplyRules /\ r' = r + 1 /\ modified' # modified)
             => changesCount' >= changesCount + 1]_vars

C23_Witness ==
    /\ ApplyRulesDone
    /\ changesCount = 0
    /\ applied # {}
    /\ \E k \in applied : CountMatches(content, rules[k].match) > 0

\* every rule of the list compiles
AllCompile(rs) == \A k \in 1..Len(rs) : rs[k].valid

\* C24: when every pattern compiles, applyTestRules on the text of a document
\* returns the text applyRules returns for it; applyTestRules fails exactly
\* when a rule that passes the feature gate does not compile
C24_HarnessIsEngine ==
    ApplyRulesDone
    => LET res == ApplyTestRules(rules, content, activatedFeatures)
       IN /\ AllCompile(rules) => (~res.threw /\ res.text = modified)
          /\ res.threw <=> \E k \in applied : ~rules[k].valid

C24_Witness ==
    /\ ApplyRulesDone
    /\ AllCompile(rules)
    /\ modified # content
    /\ \E k \in applied : rules[k].process = "lineByLine"
    /\ \E k \in applied : rules[k].process # "lineByLine"

\* the invocations of processNamespaces that are past the guard and have
\* not ended
PastGuard == {k \in 1..MaxClicks : inv[k].at \in {"running", "delay"}}

\* C25: under every interleaving of clicks, polling waits, modal creations
\* and replies, at most one invocation of processNamespaces is past the
\* isRefreshing guard, isRefreshing is set exactly while one is, and a
\* request to the API is in flight only for that invocation.
C25_OneRefreshAtATime ==
    prog = "refresh" =>
        /\ Cardinality(PastGuard) <= 1
        /\ isRefreshing <=> PastGuard # {}
        /\ pc # "idle" => \E k \in PastGuard : inv[k].at = "running"

\* a click on the button of a modal created during the run was turned away
\* at the guard, the run going on
C25_Witness ==
    /\ script = Part002
    /\ \E k \in PastGuard : inv[k].btn # 0 /\ inv[k].btn < refreshBtn
    /\ \E k \in 1..MaxClicks : inv[k].at = "blocked"

\* C26: the event loop being fair, every run that set isRefreshing resets
\* it and enables its refresh button again, whatever the requests end with.
C26_RefreshAlwaysEnds ==
    (isRefreshing \/ disabledBtns # {}) ~> (~isRefreshing /\ disabledBtns = {})

\* the step is the end of the polling loop of invocation k with
\* namespaces.json not loaded, or the start of an invocation that finds the
\* list loaded and empty
EndsUnloaded(k) ==
    /\ script = Part002
    /\ inv[k].at \in {"idle", "waiting"}
    /\ inv'[k].at \notin {"idle", "waiting"}
    /\ ~namespacesLoaded \/ Len(namespaces) = 0

\* C27: an invocation that finds namespaces.json not loaded polls at most
\* MaxAttempts (50) times; if the list is then still not loaded, or is
\* loaded and empty, the invocation reports the load error and returns
\* without a request, with isRefreshing false and the entries as they were.
C27_GivesUpAfterFiftyPolls ==
    [][\A k \in 1..MaxClicks :
          /\ inv'[k].attempts <= MaxAttempts
          /\ (inv[k].at = "waiting" /\ inv[k].attempts = MaxAttempts - 1
              /\ inv'[k] # inv[k]) => inv'[k].at # "waiting"
          /\ EndsUnloaded(k) =>
                /\ inv'[k].at = "noload"
                /\ k \in loadErrors'
                /\ sent' = sent /\ pc' = pc /\ pc = "idle"
                /\ ~isRefreshing' /\ ~isRefreshing
                /\ namespaces' = namespaces]_vars

\* an invocation gave up after its polls, namespaces.json still pending
C27_Witness ==
    /\ script = Part002
    /\ \E k \in 1..MaxClicks : k \in loadErrors /\ inv[k].at = "noload"
    /\ jsonState = "pending"

\* C28: fetchPagesInNamespace never rejects; a reply, good or bad, takes
\* nothing out of the collected set, and a good one adds its page of
\* results; a listing that met no error holds every page of results up to
\* the last; and processNamespaces records the returned set, complete or
\* not, as the quantity and the pages of the entry (part_002 stores it too).
C28_PartialResultsAreRecorded ==
    [][/\ pc' # "rejected"
       /\ pc = "await" =>
             /\ collectedPages \subseteq collectedPages'
             /\ pc' = "continue" => collectedPages' = collectedPages \cup {apcontinue}
       /\ (pc' = "returned" /\ fetchErrors' = 0) => collectedPages' = 0..apcontinue'
       /\ \A k \in 1..MaxClicks :
             (inv[k].at = "running" /\ pc = "returned" /\ inv'[k].at # "running") =>
                /\ namespaces'[nsIdx].quantity = Cardinality(collectedPages)
                /\ namespaces'[nsIdx].pages = collectedPages
                /\ script = Part002 =>
                      namespaces'[nsIdx].stored = Stored(collectedPages)]_vars

\* a run ended whose last listing was cut short by an error after its first
\* page of results: the entry holds that page and a quantity of 1
C28_Witness ==
    /\ script = Part002
    /\ \E k \in 1..MaxClicks : inv[k].at = "done"
    /\ fetchErrors > 0
    /\ namespaces[nsIdx].quantity = 1
    /\ namespaces[nsIdx].pages = {0}
    /\ namespaces[nsIdx].stored = Stored({0})

\* C29: on a page whose wgAction is not `view`, init transforms no title,
\* sends no request to Commons and leaves the content, its display and the
\* edit tab as they were.
C29_OnlyOnView ==
    (prog = "page" /\ wgAction # "view") =>
        /\ pc \in {"init", "done"}
        /\ ruleIdx = 0 /\ ~hasChanged /\ tested = NotTested
        /\ newPageTitle = NullTitle
        /\ requested = <<>> /\ replies = <<>>
        /\ pageContent = "original" /\ ~editHidden /\ ~displayBlock

\* init has returned on the edit page of a title that the rules rename
C29_Witness ==
    /\ prog = "page" /\ wgAction = "edit" /\ pc = "done"
    /\ initResult = "resolved"
    /\ wgPageName = TitleList /\ hasContent

\* C30: migratedToCommons.js never replaces the content of the page
\* `LinguaLibre:Main Page` nor hides its edit tab, whatever Commons replied.
C30_MainPageIsKept ==
    (prog = "page" /\ script = MigratedJs /\ pageTitle = MainPage) =>
        /\ pageContent = "original"
        /\ ~editHidden

\* Commons answered that the renamed main page exists, and init has ended
C30_Witness ==
    /\ prog = "page" /\ script = MigratedJs /\ pageTitle = MainPage
    /\ hasContent /\ pc = "done" /\ exists = "true"

====
